---- MODULE Spec2Model ----
(***************************************************************************)
(* Model of the fetch layer of SentinelGraph's backend scrapers.           *)
(*                                                                         *)
(*   impl = "pro"   backend/scraper_pro.py: SafeScraper with its           *)
(*                  AccountPool, GlobalRateLimiter and retryable wrapper,  *)
(*                  run by NumTasks concurrent asyncio tasks.  An action   *)
(*                  is the code between two suspension points (await).     *)
(*                                                                         *)
(*   impl = "twikit"    backend/scraper_twikit_safe.py: SafeTwitterScraper  *)
(*   impl = "simple"    backend/scraper.py: SimpleTwitterScraper           *)
(*   impl = "twscrape"  backend/scraper_twscrape.py: TwitterScraper        *)
(*                  each under one caller (task 1).                        *)
(*                                                                         *)
(*   impl = "rate"  the limiter alone, under callers that call wait()      *)
(*                  again and again, with the clock moving tick by tick.   *)
(*                                                                         *)
(* Time is counted in ticks of 0.2 s.  The limiter reads the clock only as *)
(* now - _last, so the model keeps that difference (elapsed), saturated    *)
(* at min_delay, where max(0.0, min_delay - elapsed) no longer changes.    *)
(***************************************************************************)
EXTENDS Integers, Sequences, FiniteSets, TLC

\* ---------------------------------------------------------------- bounds
NumTasks == 2
MaxAccounts == 2
MaxConc == 2
MaxAttempts == 2
MaxMinDelay == 3
MaxLimit == 2
MaxArticles == 2

\* ------------------------------------------------------ program constants
JITTER_LOW == 1            \* 0.2 s
JITTER_HIGH == 5           \* 1.0 s
DEFAULT_MIN_DELAY == 5     \* 1 / GLOBAL_QPS, SG_QPS unset

None == "None"

Tasks == 1..NumTasks
Accounts == 1..MaxAccounts

Min(a, b) == IF a < b THEN a ELSE b
Max(a, b) == IF a > b THEN a ELSE b

\* python's s[:n], n >= 0
Take(s, n) == SubSeq(s, 1, Min(Len(s), n))

VARIABLES
    impl,          \* which scraper module the run exercises
    ntasks,        \* how many callers the run has
    max_retries,   \* MAX_RETRIES
    conc,          \* PER_ACCOUNT_CONCURRENCY
    naccounts,     \* len(pool.accounts)
    min_delay,     \* GlobalRateLimiter.min_delay, in ticks
    client,        \* Account.client is not None, per account
    pool_made,     \* AccountPool(accounts) returned a pool (it did not raise)
    sem,           \* Account.sem: permits available, per account
    last_used,     \* Account.last_used: the attempt that stamped it last
    failures,      \* Account.failures, per account
    pool_idx,      \* AccountPool._idx
    handed,        \* history: the accounts get_account returned, in order
    rate_lock,     \* GlobalRateLimiter._lock: 0 = free, else the holder
    elapsed,       \* time.time() - GlobalRateLimiter._last, saturated
    sleep_left,    \* ticks left of the limiter's asyncio.sleep
    grants,        \* history: grants of wait() so far, saturated at 2
    since_grant,   \* history: ticks since the most recent grant, saturated
    last_gap,      \* history: since_grant as the most recent grant found it
    since_req,     \* history: ticks since the most recent outbound request, saturated
    req_gap,       \* history: since_req as the most recent request found it
    tk,            \* per task: position and locals of its call
    out            \* per task: what the call gave its caller

vars == <<impl, ntasks, max_retries, conc, naccounts, min_delay, client, pool_made,
          sem, last_used, failures, pool_idx, handed,
          rate_lock, elapsed, sleep_left, grants, since_grant, last_gap,
          since_req, req_gap, tk, out>>

config == <<impl, ntasks, max_retries, conc, naccounts, min_delay, client, pool_made>>
limiter == <<rate_lock, elapsed, sleep_left, grants, since_grant, last_gap>>
gates == <<sem, last_used, failures>>
pool == <<pool_idx, handed>>
reqs == <<since_req, req_gap>>

\* ------------------------------------------------------------ exceptions
NoExc == [at |-> 0, what |-> "none"]
\* the exception object raised by attempt number n (1-based) of the wrapped fn
ExcAt(n, w) == [at |-> n, what |-> w]

\* ---------------------------------------------------------------- values
\* what a call gave its caller; at = the attempt (1-based) whose return it is
NoOut == [st |-> "none", val |-> <<>>, at |-> 0, exc |-> NoExc]
Returned(v, n) == [st |-> "returned", val |-> v, at |-> n, exc |-> NoExc]
Raised(e) == [st |-> "raised", val |-> <<>>, at |-> 0, exc |-> e]

\* what the structured client hands back for one tweet: the fields the
\* normalizer reads (None = the attribute is absent or None)
FullItem == [id |-> "tid", text |-> "txt", likeCount |-> None, likes |-> None,
             retweetCount |-> None]
NullItem == [id |-> None, text |-> None, likeCount |-> None, likes |-> None,
             retweetCount |-> None]

\* locals of one call (pc, kind, limit, digit, i, acc, exc, nid) and its history:
\* calls = invocations of the wrapped fn, holds = gate permits taken and not given
\* back, lastPrim/lastRec/lastDoc = how the structured-client lookup / the search
\* for the conversation / the document fetch of the latest attempt ended ("none" =
\* not made), docTried = a document fetch was made in this call, batch = the
\* items the structured client answered with, item = the tweet get_tweet_by_id
\* answered with, granted = the returns of rate.wait() to this call
IdleTask == [pc |-> "idle", kind |-> "none", limit |-> 0, digit |-> FALSE,
             i |-> 0, acc |-> 0, exc |-> NoExc, nid |-> FALSE,
             calls |-> 0, holds |-> 0, lastPrim |-> "none", lastDoc |-> "none",
             lastRec |-> "none", docTried |-> FALSE, batch |-> <<>>,
             item |-> NullItem, granted |-> 0]

\* the call is over: its locals are gone, its arguments and history stay
Finished(r) == [r EXCEPT !.pc = "done", !.digit = FALSE, !.i = 0, !.acc = 0,
                         !.exc = NoExc, !.nid = FALSE]

\* ------------------------------------------------------------ rate limiter
\* to_wait = max(0.0, self.min_delay - elapsed)
ToWaitFlipped(md, el) == Max(0, el - md)
ToWait(md, el) == Max(0, md - el)

\* asyncio.sleep(to_wait + random.uniform(JITTER_LOW, JITTER_HIGH))
SleepTicks(to_wait, jitter) == to_wait + jitter

Stamp ==
    /\ elapsed' = 0
    /\ last_gap' = since_grant
    /\ since_grant' = 0
    /\ grants' = Min(grants + 1, 2)

\* an outbound request leaves: a call of the structured client or an http get
Request ==
    /\ req_gap' = since_req
    /\ since_req' = 0


\* ------------------------------------------------------------ accounts
\* Account.last_used: float = 0.0; acc.last_used = time.time() -- the stamp is
\* known by the attempt that set it
NeverUsed == [by |-> 0, at |-> 0]
AttemptOf(t) == [by |-> t, at |-> tk[t].calls]

\* Account.sem = asyncio.Semaphore(PER_ACCOUNT_CONCURRENCY)
InitialPermitsOne(n) == 1
InitialPermits(n) == n

\* AccountPool.__init__ with n accounts: if not accounts: raise ValueError;
\* TRUE = the constructor returns a pool
AccountPoolInitUnchecked(n) == TRUE
AccountPoolInit(n) == n > 0

\* ------------------------------------------------------------------- Init
InitPro ==
    /\ impl = "pro"
    /\ ntasks \in {1, NumTasks}
    /\ max_retries \in (IF ntasks = 1 THEN 0..MaxAttempts ELSE {MaxAttempts})
    /\ conc \in 1..MaxConc
    /\ naccounts \in 0..MaxAccounts
    /\ pool_made = AccountPoolInit(naccounts)
    /\ min_delay = DEFAULT_MIN_DELAY
    /\ client \in [Accounts -> BOOLEAN]
    /\ \A a \in Accounts : a > naccounts => client[a] = FALSE
    /\ ntasks > 1 => \A a, b \in 1..naccounts : client[a] = client[b]
    /\ sem = [a \in Accounts |-> IF a <= naccounts THEN InitialPermits(conc) ELSE 0]
    /\ last_used = [a \in Accounts |-> NeverUsed]
    /\ failures = [a \in Accounts |-> 0]
    /\ pool_idx = 0
    /\ handed = <<>>
    /\ rate_lock = 0
    /\ elapsed = min_delay          \* _last = 0.0: the epoch is long past
    /\ sleep_left = 0
    /\ grants = 0
    /\ since_grant = min_delay
    /\ last_gap = min_delay
    /\ since_req = min_delay
    /\ req_gap = min_delay
    /\ tk = [t \in Tasks |-> IdleTask]
    /\ out = [t \in Tasks |-> NoOut]

\* A run with one caller draws every argument and every answer of the
\* collaborators; a run with several callers draws one of each class.
Limits == IF ntasks = 1 THEN 0..MaxLimit ELSE {MaxLimit}
Counts == IF ntasks = 1 THEN 0..MaxArticles ELSE {MaxArticles}

\* ------------------------------------------------------- retry wrapper
\* for i in range(max_retries): is there an iteration after iteration i
LoopContinuesOffByOne(i, m) == i + 1 <= m
LoopContinues(i, m) == i + 1 < m

\* exc = e
CaughtExcKeepFirst(old, e) == IF old = NoExc THEN e ELSE old
CaughtExc(old, e) == e

\* raise exc, after the loop; with exc = None python raises TypeError instead
FinalRaise(e) == IF e = NoExc THEN ExcAt(0, "TypeError") ELSE e

\* where invocation i of the wrapped fn starts: await self.rate.wait()
AttemptStartRetrySkipsWait(i) == IF i = 0 THEN "rate" ELSE "pool"
AttemptStart(i) == "rate"

\* a caller awaits search / user_timeline / tweet_details: the wrapper starts
Call(t) ==
    /\ impl = "pro"
    /\ pool_made                           \* SafeScraper(pool) needs the pool
    /\ t <= ntasks
    /\ tk[t].pc = "idle"
    /\ (t > 1 => tk[t - 1].pc # "idle")   \* tasks are numbered in the order of their calls
    /\ \E k \in {"search", "timeline", "details"}, l \in Limits, d \in BOOLEAN :
         /\ (k = "details" => d = FALSE /\ \A l2 \in Limits : l <= l2)   \* takes no limit
         /\ (k = "search" => d = FALSE)                                 \* reads no isdigit()
         /\ IF max_retries > 0
            THEN /\ tk' = [tk EXCEPT ![t] = [@ EXCEPT !.pc = AttemptStart(0), !.kind = k,
                                !.limit = l, !.digit = d, !.i = 0, !.calls = 1]]
                 /\ UNCHANGED out
            ELSE /\ tk' = [tk EXCEPT ![t] = Finished([@ EXCEPT !.kind = k, !.limit = l])]
                 /\ out' = [out EXCEPT ![t] = Raised(FinalRaise(NoExc))]
    /\ UNCHANGED <<config, reqs, limiter, gates, pool>>

\* await asyncio.sleep(backoff) returns: next iteration, or raise exc
BackoffWake(t) ==
    /\ tk[t].pc = "backoff"
    /\ IF LoopContinues(tk[t].i, max_retries)
       THEN /\ tk' = [tk EXCEPT ![t] = [@ EXCEPT !.pc = AttemptStart(tk[t].i + 1),
                           !.i = @ + 1,
                           !.calls = @ + 1]]
            /\ UNCHANGED out
       ELSE /\ tk' = [tk EXCEPT ![t] = Finished(@)]
            /\ out' = [out EXCEPT ![t] = Raised(FinalRaise(tk[t].exc))]
    /\ UNCHANGED <<config, reqs, limiter, gates, pool>>

\* -------------------------------------------------- GlobalRateLimiter.wait
\* leaving `async with self._lock:` frees the lock that task t holds
LockAfterExitKept(t) == t
LockAfterExit(t) == 0

\* async with self._lock: ... no sleep needed: stamp and leave at once;
\* otherwise sleep holding the lock
RateEnter(t) ==
    /\ tk[t].pc = "rate"
    /\ rate_lock = 0
    /\ LET to_wait == ToWait(min_delay, elapsed) IN
       IF to_wait > 0
       THEN /\ \E jitter \in JITTER_LOW..JITTER_HIGH :
                 sleep_left' = SleepTicks(to_wait, jitter)
            /\ rate_lock' = t
            /\ tk' = [tk EXCEPT ![t] = [@ EXCEPT !.pc = "rate_sleep"]]
            /\ UNCHANGED <<elapsed, grants, since_grant, last_gap>>
       ELSE /\ Stamp
            /\ rate_lock' = LockAfterExit(t)
            /\ tk' = [tk EXCEPT ![t] = [@ EXCEPT !.pc = "pool", !.granted = @ + 1]]
            /\ UNCHANGED sleep_left
    /\ UNCHANGED <<config, reqs, gates, pool, out>>

\* the sleep is over: self._last = time.time(), the lock is released
RateWake(t) ==
    /\ tk[t].pc = "rate_sleep"
    /\ sleep_left = 0
    /\ Stamp
    /\ rate_lock' = LockAfterExit(t)
    /\ tk' = [tk EXCEPT ![t] = [@ EXCEPT !.pc = "pool", !.granted = @ + 1]]
    /\ UNCHANGED <<config, reqs, sleep_left, gates, pool, out>>

\* a pause at least as long as every pending delay passes
Pause ==
    /\ impl = "pro"
    /\ elapsed' = min_delay
    /\ since_grant' = min_delay
    /\ sleep_left' = 0
    /\ since_req' = min_delay
    /\ UNCHANGED <<config, rate_lock, grants, last_gap, req_gap, gates, pool, tk, out>>

\* one tick of the clock passes
Tick ==
    /\ impl = "rate"
    /\ elapsed' = Min(elapsed + 1, min_delay)
    /\ since_grant' = Min(since_grant + 1, min_delay)
    /\ sleep_left' = Max(sleep_left - 1, 0)
    /\ since_req' = Min(since_req + 1, min_delay)
    /\ UNCHANGED <<config, rate_lock, grants, last_gap, req_gap, gates, pool, tk, out>>

\* ---------------------------------------------------- AccountPool, gate
\* self._idx = (self._idx + 1) % len(self.accounts)
NextIdxNoWrap(idx, k) == idx + 1
NextIdx(idx, k) == (idx + 1) % k

GetAccount(t) ==
    /\ impl = "pro"
    /\ tk[t].pc = "pool"
    /\ tk' = [tk EXCEPT ![t] = [@ EXCEPT !.pc = "gate", !.acc = pool_idx + 1]]
    /\ pool_idx' = NextIdx(pool_idx, naccounts)
    /\ handed' = Append(handed, pool_idx + 1)
    /\ UNCHANGED <<config, reqs, limiter, gates, out>>

\* asyncio.Semaphore.acquire returns only when a permit is there
GateOpenAlways(permits) == TRUE
GateOpen(permits) == permits > 0

\* where the body of the attempt starts, once the gate is held
BodyStart(r) ==
    CASE r.kind = "search" -> "html"
      [] r.kind = "details" -> IF client[r.acc] THEN "primary" ELSE "html"
      [] r.kind = "timeline" ->
            IF r.digit THEN (IF client[r.acc] THEN "tl_primary" ELSE "html")
            ELSE IF client[r.acc] THEN "tl_login" ELSE "tl_profile"

Acquire(t) ==
    /\ tk[t].pc = "gate"
    /\ GateOpen(sem[tk[t].acc])
    /\ sem' = [sem EXCEPT ![tk[t].acc] = @ - 1]
    /\ last_used' = [last_used EXCEPT ![tk[t].acc] = AttemptOf(t)]
    /\ UNCHANGED failures
    /\ tk' = [tk EXCEPT ![t] = [@ EXCEPT !.pc = BodyStart(tk[t]), !.holds = @ + 1,
                        !.nid = tk[t].digit, !.lastPrim = "none", !.lastDoc = "none"]]
    /\ UNCHANGED <<config, reqs, limiter, pool, out>>

\* finally: await self._release(acc) -- permits given back on leaving by `how`
ReleasesOnExitReturnOnly(how) == IF how = "return" THEN 1 ELSE 0
ReleasesOnExit(how) == 1

\* the attempt leaves its try block: r is the task as the body left it
Leave(t, r, how, v, e) ==
    /\ sem' = [sem EXCEPT ![r.acc] = @ + ReleasesOnExit(how)]
    /\ UNCHANGED <<last_used, failures>>
    /\ IF how = "return"
       THEN /\ tk' = [tk EXCEPT ![t] =
                       Finished([r EXCEPT !.holds = @ - ReleasesOnExit(how)])]
            /\ out' = [out EXCEPT ![t] = Returned(v, r.i + 1)]
       ELSE /\ tk' = [tk EXCEPT ![t] = [r EXCEPT !.pc = "backoff",
                           !.holds = @ - ReleasesOnExit(how),
                           !.exc = CaughtExc(@, e)]]
            /\ UNCHANGED out

\* ------------------------------------------------- collaborators' answers
\* httpx get: raises (timeout, connection), or a status with a body; n is
\* the number of <article> elements of the body
HttpAnswers ==
    {[st |-> "raise", n |-> 0], [st |-> "non200", n |-> 0]}
        \cup {[st |-> "200", n |-> k] : k \in Counts}

\* the tweet page: text = whether any text is found in the document
DocAnswers ==
    {[st |-> "raise", text |-> ""], [st |-> "non200", text |-> ""],
     [st |-> "200", text |-> "txt"], [st |-> "200", text |-> ""]}

\* soup.find_all("article", limit=limit*2): bs4 reads limit 0 as no limit
FoundArticles(n, limit) == IF limit = 0 THEN n ELSE Min(n, 2 * limit)

\* the loop over the articles: break once len(results) >= limit
KeptArticles(n, limit) == Min(FoundArticles(n, limit), limit)

SearchRecord == [id |-> "tid", text |-> "txt", scraped_with_query |-> "q"]
RawSnippetRecord ==
    [id |-> None, text |-> None, raw_html |-> "html", scraped_with_query |-> "q"]

\* SafeScraper.search, from the 200 answer on
SearchParse(n, limit) ==
    LET results == [j \in 1..KeptArticles(n, limit) |-> SearchRecord] IN
    IF results = <<>> THEN <<RawSnippetRecord>> ELSE Take(results, limit)

\* ----------------------------------------------------- SafeScraper.search
SearchHttp(t) ==
    /\ tk[t].pc = "html"
    /\ tk[t].kind = "search"
    /\ \E r \in HttpAnswers :
         LET me == [tk[t] EXCEPT !.lastDoc = r.st, !.docTried = TRUE] IN
         CASE r.st = "raise" ->
                Leave(t, me, "raise", <<>>, ExcAt(tk[t].i + 1, "transport"))
           [] r.st = "non200" -> Leave(t, me, "return", <<>>, NoExc)
           [] r.st = "200" ->
                Leave(t, me, "return", SearchParse(r.n, tk[t].limit), NoExc)
    /\ Request
    /\ UNCHANGED <<config, limiter, pool>>

\* ---------------------------------------- _normalize_tweet_from_twikit
\* the tweets get_tweet_by_id may hand back: with or without its counters
CountValues == {"None", "0", "3"}
DetailItems ==
    IF ntasks = 1
    THEN {[FullItem EXCEPT !.likeCount = c, !.retweetCount = r] :
             c \in CountValues, r \in {"None", "0"}}
    ELSE {FullItem}

\* python's `a or b` (counts are written as their decimal strings)
Or(a, b) == IF a \in {None, "", "0"} THEN b ELSE a

\* out["likes"] = getattr(t, "likeCount", None) or getattr(t, "likes", None)
\* out["retweets"] = getattr(t, "retweetCount", None)
NormalizeTwikit(item) ==
    [id |-> item.id, text |-> item.text, likes |-> Or(item.likeCount, item.likes),
     retweets |-> item.retweetCount]

\* ---------------------------------------------- SafeScraper.tweet_details
\* acc.client.get_tweet_by_id: an item, None, or an exception (caught)
DetailPrimary(t) ==
    /\ tk[t].pc = "primary"
    /\ tk[t].kind = "details"
    /\ \E a \in {"item", "null", "raise"}, it \in DetailItems :
         LET got == IF a = "item" THEN it ELSE NullItem
             me == [tk[t] EXCEPT !.lastPrim = IF a = "raise" THEN "raised" ELSE "ok",
                                 !.item = got] IN
         CASE a = "item" -> Leave(t, me, "return", NormalizeTwikit(got), NoExc)
           [] a = "null" -> Leave(t, me, "return", NormalizeTwikit(got), NoExc)
           [] a = "raise" ->
                /\ tk' = [tk EXCEPT ![t] = [me EXCEPT !.pc = "html"]]
                /\ UNCHANGED <<gates, out>>
    /\ Request
    /\ UNCHANGED <<config, limiter, pool>>

\* parse_tweet_html, then id, scraped_at and the whole-document text filled in
ParsedDetail(text) ==
    [id |-> "tid", text |-> text, username |-> None, created_at |-> None,
     likes |-> None, retweets |-> None, replies |-> None,
     raw_html |-> "html", scraped_at |-> "ts"]

HttpErrorDict == [error |-> "HTTP", id |-> "tid"]

\* how the attempt leaves after the page's answer r: r.status_code == 200 gives
\* the parsed record, any other status the error dict; an exception of the
\* transport is not caught
DetailHtmlOutcomeRaiseForStatus(r) ==
    IF r.st = "200" THEN [how |-> "return", val |-> ParsedDetail(r.text)]
    ELSE [how |-> "raise", val |-> <<>>]
DetailHtmlOutcome(r) ==
    CASE r.st = "raise" -> [how |-> "raise", val |-> <<>>]
      [] r.st = "non200" -> [how |-> "return", val |-> HttpErrorDict]
      [] r.st = "200" -> [how |-> "return", val |-> ParsedDetail(r.text)]

DetailHtml(t) ==
    /\ tk[t].pc = "html"
    /\ tk[t].kind = "details"
    /\ \E r \in DocAnswers :
         LET me == [tk[t] EXCEPT !.lastDoc = r.st, !.docTried = TRUE]
             o == DetailHtmlOutcome(r) IN
         Leave(t, me, o.how, o.val, ExcAt(tk[t].i + 1, "transport"))
    /\ Request
    /\ UNCHANGED <<config, limiter, pool>>

\* ---------------------------------------------- SafeScraper._get_user_id
\* after the id is resolved or not: `if numeric_id and acc.client:`
AfterResolveIdOnly(r, found) == IF found THEN "tl_primary" ELSE "html"
AfterResolve(r, found) == IF found /\ client[r.acc] THEN "tl_primary" ELSE "html"

\* acc.client.user_by_login: a user with an id, nothing usable, or an exception
TlLogin(t) ==
    /\ tk[t].pc = "tl_login"
    /\ \E a \in {"id", "noid", "raise"} :
         tk' = [tk EXCEPT ![t] =
                  IF a = "id"
                  THEN [@ EXCEPT !.nid = TRUE, !.pc = AfterResolve(tk[t], TRUE)]
                  ELSE [@ EXCEPT !.pc = "tl_profile"]]
    /\ Request
    /\ UNCHANGED <<config, limiter, gates, pool, out>>

\* the profile page: any failure is swallowed and gives None
TlProfile(t) ==
    /\ tk[t].pc = "tl_profile"
    /\ \E a \in {"raise", "non200", "match", "nomatch"} :
         LET found == (a = "match") IN
         tk' = [tk EXCEPT ![t] = [@ EXCEPT !.nid = found,
                                           !.pc = AfterResolve(tk[t], found)]]
    /\ Request
    /\ UNCHANGED <<config, limiter, gates, pool, out>>

\* --------------------------------------------- SafeScraper.user_timeline
\* for t in tweets_iter: out.append(...); if len(out) >= limit: break
TimelineKept(n, limit) == IF n = 0 THEN 0 ELSE Min(n, Max(limit, 1))

\* acc.client.get_user_tweets: n items, or an exception (caught)
TweetsAnswers ==
    {[st |-> "raise", n |-> 0]} \cup {[st |-> "ok", n |-> k] : k \in Counts}

TlPrimary(t) ==
    /\ tk[t].pc = "tl_primary"
    /\ \E a \in TweetsAnswers :
         LET me == [tk[t] EXCEPT !.lastPrim = IF a.st = "raise" THEN "raised" ELSE "ok"] IN
         IF a.st = "raise"
         THEN /\ tk' = [tk EXCEPT ![t] = [me EXCEPT !.pc = "html"]]
              /\ UNCHANGED <<gates, out>>
         ELSE Leave(t, me, "return",
                    [j \in 1..TimelineKept(a.n, tk[t].limit) |-> NormalizeTwikit(FullItem)],
                    NoExc)
    /\ Request
    /\ UNCHANGED <<config, limiter, pool>>

TimelineRecord == [id |-> "tid", text |-> "txt", username |-> "user"]

TlHtml(t) ==
    /\ tk[t].pc = "html"
    /\ tk[t].kind = "timeline"
    /\ \E r \in HttpAnswers :
         LET me == [tk[t] EXCEPT !.lastDoc = r.st, !.docTried = TRUE] IN
         CASE r.st = "raise" ->
                Leave(t, me, "raise", <<>>, ExcAt(tk[t].i + 1, "transport"))
           [] r.st = "non200" -> Leave(t, me, "return", <<>>, NoExc)
           [] r.st = "200" ->
                Leave(t, me, "return",
                      [j \in 1..KeptArticles(r.n, tk[t].limit) |-> TimelineRecord], NoExc)
    /\ Request
    /\ UNCHANGED <<config, limiter, pool>>

\* ------------------------------------------------------------------- Next
ProNext ==
    \/ Pause
    \/ \E t \in Tasks :
         \/ Call(t)
         \/ RateEnter(t)
         \/ RateWake(t)
         \/ GetAccount(t)
         \/ Acquire(t)
         \/ SearchHttp(t)
         \/ DetailPrimary(t)
         \/ DetailHtml(t)
         \/ TlLogin(t)
         \/ TlProfile(t)
         \/ TlPrimary(t)
         \/ TlHtml(t)
         \/ BackoffWake(t)

\* ------------------------------------- concurrent callers, fair scheduling
\* the steps of task t once its call is made: the event loop runs a task that
\* is ready, and every collaborator call returns
TaskStep(t) ==
    \/ RateEnter(t)
    \/ RateWake(t)
    \/ GetAccount(t)
    \/ Acquire(t)
    \/ SearchHttp(t)
    \/ DetailPrimary(t)
    \/ DetailHtml(t)
    \/ TlLogin(t)
    \/ TlProfile(t)
    \/ TlPrimary(t)
    \/ TlHtml(t)
    \/ BackoffWake(t)

\* every sleep ends (Pause), every ready task is run
Fairness == WF_vars(Pause) /\ \A t \in Tasks : WF_vars(TaskStep(t))

\* concurrent callers, and gates with fewer permits than there are callers,
\* so that a caller can find its gate full
InitLive == InitPro /\ ntasks = NumTasks /\ conc < NumTasks

SpecLive == InitLive /\ [][ProNext]_vars /\ Fairness

\* ------------------------------------------------ the limiter on its own
InitRate ==
    /\ impl = "rate"
    /\ ntasks = NumTasks
    /\ max_retries = 0
    /\ conc = 1
    /\ naccounts = 1
    /\ pool_made = TRUE
    /\ min_delay \in 1..MaxMinDelay
    /\ client = [a \in Accounts |-> FALSE]
    /\ sem = [a \in Accounts |-> 0]
    /\ last_used = [a \in Accounts |-> NeverUsed]
    /\ failures = [a \in Accounts |-> 0]
    /\ pool_idx = 0
    /\ handed = <<>>
    /\ rate_lock = 0
    /\ elapsed = min_delay
    /\ sleep_left = 0
    /\ grants = 0
    /\ since_grant = min_delay
    /\ last_gap = min_delay
    /\ since_req = min_delay
    /\ req_gap = min_delay
    /\ tk = [t \in Tasks |-> IdleTask]
    /\ out = [t \in Tasks |-> NoOut]

\* a caller awaits rate.wait()
WaitCall(t) ==
    /\ impl = "rate"
    /\ tk[t].pc = "idle"
    /\ tk' = [tk EXCEPT ![t] = [@ EXCEPT !.pc = "rate"]]
    /\ UNCHANGED <<config, reqs, limiter, gates, pool, out>>

\* wait() has returned to that caller
WaitReturn(t) ==
    /\ impl = "rate"
    /\ tk[t].pc = "pool"
    /\ tk' = [tk EXCEPT ![t] = [@ EXCEPT !.pc = "idle", !.granted = 0]]
    /\ UNCHANGED <<config, reqs, limiter, gates, pool, out>>

RateNext ==
    \/ Tick
    \/ \E t \in Tasks :
         \/ WaitCall(t)
         \/ RateEnter(t)
         \/ RateWake(t)
         \/ WaitReturn(t)

SpecRate == InitRate /\ [][RateNext]_vars

\* ================================================== the one-caller scrapers
SeqImpls == {"twikit", "simple", "twscrape"}

InitSeq ==
    /\ impl \in SeqImpls
    /\ ntasks = 1
    /\ max_retries = 0
    /\ conc = 1
    /\ naccounts = 1
    /\ pool_made = TRUE
    /\ min_delay = DEFAULT_MIN_DELAY
    /\ client = [a \in Accounts |-> FALSE]
    /\ sem = [a \in Accounts |-> 0]
    /\ last_used = [a \in Accounts |-> NeverUsed]
    /\ failures = [a \in Accounts |-> 0]
    /\ pool_idx = 0
    /\ handed = <<>>
    /\ rate_lock = 0
    /\ elapsed = min_delay
    /\ sleep_left = 0
    /\ grants = 0
    /\ since_grant = min_delay
    /\ last_gap = min_delay
    /\ since_req = min_delay
    /\ req_gap = min_delay
    /\ tk = [t \in Tasks |-> IdleTask]
    /\ out = [t \in Tasks |-> NoOut]

\* a batch of items as the structured client hands it over: "good" = every
\* attribute is there, "bad" = reading an attribute raises
ItemKinds == {"good", "bad"}
Batches == UNION {[1..n -> ItemKinds] : n \in 0..MaxArticles}

\* the id of the j-th item of a batch
Ids == <<"id1", "id2", "id3", "id4", "id5">>

KindsOf(im) ==
    CASE im = "twikit" -> {"search", "timeline", "details"}
      [] im = "simple" -> {"search"}
      [] im = "twscrape" -> {"search", "timeline"}

SeqStart(im, k) ==
    CASE im = "twikit" /\ k = "search" -> "s_search"
      [] im = "twikit" /\ k = "timeline" -> "s_timeline"
      [] im = "twikit" /\ k = "details" -> "s_primary"
      [] im = "simple" -> "simple_get"
      [] im = "twscrape" -> "tw_search"

SeqCall ==
    /\ impl \in SeqImpls
    /\ tk[1].pc = "idle"
    /\ \E k \in KindsOf(impl), l \in 0..MaxLimit :
         /\ (k = "details" => l = 0)
         /\ tk' = [tk EXCEPT ![1] = [@ EXCEPT !.pc = SeqStart(impl, k), !.kind = k,
                                              !.limit = l, !.calls = 1]]
    /\ UNCHANGED <<config, reqs, limiter, gates, pool, out>>

SeqReturn(r, v) ==
    /\ tk' = [tk EXCEPT ![1] = Finished(r)]
    /\ out' = [out EXCEPT ![1] = Returned(v, 1)]

SeqRaise(r, e) ==
    /\ tk' = [tk EXCEPT ![1] = Finished(r)]
    /\ out' = [out EXCEPT ![1] = Raised(e)]

\* ------------------------------------------- SafeTwitterScraper.search
TwikitSearchRecord(j) ==
    [id |-> Ids[j], text |-> "txt", username |-> "user", created_at |-> "ts"]
TwikitTimelineRecord(j) ==
    [id |-> Ids[j], text |-> "txt", created_at |-> "ts"]

\* if len(results) >= limit: break -- does the loop go on with n results
GoesOnOffByOne(n, limit) == n + 1 < limit
GoesOn(n, limit) == n < limit

\* for t in results_raw: try: results.append({...}) except: continue
\*                       if len(results) >= limit: break
\* (shape = "search": the records of search; "timeline": of user_timeline)
RECURSIVE SafeLoop(_, _, _, _, _)
SafeLoop(shape, items, limit, j, results) ==
    IF j > Len(items) THEN results
    ELSE IF items[j] = "bad" THEN SafeLoop(shape, items, limit, j + 1, results)
    ELSE LET rec == IF shape = "search" THEN TwikitSearchRecord(j)
                    ELSE TwikitTimelineRecord(j)
             more == Append(results, rec) IN
         IF GoesOn(Len(more), limit) THEN SafeLoop(shape, items, limit, j + 1, more)
         ELSE more

\* search_tweet raises: return []; else the loop over what it gave
SafeSearch(answer, limit) ==
    IF answer.st = "raise" THEN <<>>
    ELSE SafeLoop("search", answer.items, limit, 1, <<>>)

BatchAnswers ==
    {[st |-> "raise", items |-> <<>>]} \cup {[st |-> "ok", items |-> b] : b \in Batches}

TwikitSafeSearch ==
    /\ tk[1].pc = "s_search"
    /\ \E a \in BatchAnswers :
         SeqReturn([tk[1] EXCEPT !.lastPrim = IF a.st = "raise" THEN "raised" ELSE "ok",
                                 !.batch = a.items],
                   SafeSearch(a, tk[1].limit))
    /\ UNCHANGED <<config, reqs, limiter, gates, pool>>

\* -------------------------------------- SafeTwitterScraper.user_timeline
SafeTimeline(answer, limit) ==
    IF answer.st = "raise" THEN <<>>
    ELSE SafeLoop("timeline", answer.items, limit, 1, <<>>)

TwikitSafeTimeline ==
    /\ tk[1].pc = "s_timeline"
    /\ \E a \in BatchAnswers :
         SeqReturn([tk[1] EXCEPT !.lastPrim = IF a.st = "raise" THEN "raised" ELSE "ok",
                                 !.batch = a.items],
                   SafeTimeline(a, tk[1].limit))
    /\ UNCHANGED <<config, reqs, limiter, gates, pool>>

\* -------------------------------------- SafeTwitterScraper.tweet_details
\* layer 1: get_tweet_by_id gives an item, gives None (t.id then raises), or raises
TwikitSafeDetailPrimary ==
    /\ tk[1].pc = "s_primary"
    /\ \E a \in {"item", "null", "raise"} :
         IF a = "item"
         THEN SeqReturn([tk[1] EXCEPT !.lastPrim = "ok"], TwikitSearchRecord(1))
         ELSE /\ tk' = [tk EXCEPT ![1] = [@ EXCEPT !.pc = "s_recover",
                                                   !.lastPrim = "raised"]]
              /\ UNCHANGED out
    /\ UNCHANGED <<config, reqs, limiter, gates, pool>>

\* layer 2: fallback = await self.search(f"conversation_id:{tweet_id}", limit=1)
TwikitSafeDetailSearch ==
    /\ tk[1].pc = "s_recover"
    /\ \E a \in BatchAnswers :
         LET fallback == SafeSearch(a, 1) IN
         IF fallback # <<>>
         THEN SeqReturn([tk[1] EXCEPT !.lastRec = "hit"], fallback[1])
         ELSE /\ tk' = [tk EXCEPT ![1] = [@ EXCEPT !.pc = "s_html",
                              !.lastRec = IF a.st = "raise" THEN "raised" ELSE "empty"]]
              /\ UNCHANGED out
    /\ UNCHANGED <<config, reqs, limiter, gates, pool>>

RawHtmlRecord == [id |-> "tid", text |-> "(raw HTML fetched)", html |-> "html"]
NotAccessible == [error |-> "Tweet not accessible or unsupported structure"]

\* layer 3: the page; st = "200" has "status" in its text, "200nomark" has not
PageAnswers == {"raise", "non200", "200", "200nomark"}

\* if raw.status_code == 200 and "status" in text: the record; else, and on
\* any exception, the error dict
SafeDetailHtmlInverted(a) == IF a = "200nomark" THEN RawHtmlRecord ELSE NotAccessible
SafeDetailHtml(a) == IF a = "200" THEN RawHtmlRecord ELSE NotAccessible

TwikitSafeDetailHtml ==
    /\ tk[1].pc = "s_html"
    /\ \E a \in PageAnswers :
         SeqReturn([tk[1] EXCEPT !.lastDoc = a, !.docTried = TRUE], SafeDetailHtml(a))
    /\ UNCHANGED <<config, reqs, limiter, gates, pool>>

\* ------------------------------------------ SimpleTwitterScraper.search
\* requests.get raises or status_code != 200: return []; else tweets[:limit]
SimpleSearch ==
    /\ tk[1].pc = "simple_get"
    /\ \E r \in HttpAnswers :
         SeqReturn([tk[1] EXCEPT !.lastDoc = r.st, !.docTried = TRUE],
                   IF r.st = "200"
                   THEN Take([j \in 1..r.n |-> "content"], tk[1].limit)
                   ELSE <<>>)
    /\ UNCHANGED <<config, reqs, limiter, gates, pool>>

\* ------------------------- TwitterScraper.search, .user_timeline
\* (both are: tweets = await gather(...); return [normalize_tweet(t) for t in tweets])
\* normalize_tweet: t.id, t.date and t.user are read without a guard
TwscrapeRecord(j) ==
    [id |-> Ids[j], date |-> "ts", username |-> "user", content |-> "txt",
     likes |-> None, retweets |-> None, replies |-> None, views |-> None]

\* gather(self.api.search(query, limit=limit)): the library stops at limit
TwscrapeAnswers ==
    {[st |-> "raise", items |-> <<>>]}
        \cup {[st |-> "ok", items |-> b] : b \in {c \in Batches : Len(c) <= tk[1].limit}}

TwscrapeSearch ==
    /\ tk[1].pc = "tw_search"
    /\ \E a \in TwscrapeAnswers :
         LET me == [tk[1] EXCEPT !.lastPrim = IF a.st = "raise" THEN "raised" ELSE "ok",
                                 !.batch = a.items] IN
         CASE a.st = "raise" -> SeqRaise(me, ExcAt(1, "client"))
           [] a.st = "ok" /\ \E j \in 1..Len(a.items) : a.items[j] = "bad" ->
                SeqRaise(me, ExcAt(1, "AttributeError"))
           [] OTHER -> SeqReturn(me, [j \in 1..Len(a.items) |-> TwscrapeRecord(j)])
    /\ UNCHANGED <<config, reqs, limiter, gates, pool>>

SeqNext ==
    \/ SeqCall
    \/ TwikitSafeSearch
    \/ TwikitSafeTimeline
    \/ TwikitSafeDetailPrimary
    \/ TwikitSafeDetailSearch
    \/ TwikitSafeDetailHtml
    \/ SimpleSearch
    \/ TwscrapeSearch

\* ================================================================== Spec
Init == InitPro \/ InitSeq
Next == ProNext \/ SeqNext
Spec == Init /\ [][Next]_vars

\* ================================================================ claims
\* the attempt of task t is between _acquire and _release
BodyPcs == {"html", "primary", "tl_login", "tl_profile", "tl_primary"}

\* the tasks that hold the gate of account a
Holders(a) == {t \in Tasks : tk[t].acc = a /\ tk[t].pc \in BodyPcs}

\* which strategy a record shows itself to come from: the document paths
\* alone put the page's markup into the record
Provenance(r) ==
    IF "error" \in DOMAIN r THEN "none"
    ELSE IF "raw_html" \in DOMAIN r \/ "html" \in DOMAIN r THEN "document fallback"
    ELSE "primary"

BodyText(r) == IF "text" \in DOMAIN r THEN r.text ELSE r.content

DetailsDone(t) == tk[t].pc = "done" /\ tk[t].kind = "details"

\* C1: any two consecutive grants of GlobalRateLimiter.wait() are at least
\* min_delay = 1/qps apart, whatever the callers do.
C1_GrantSpacing == grants >= 2 => last_gap >= min_delay

\* two grants were made while a second caller waited for the lock that a
\* sleeping caller holds
C1_Witness ==
    /\ grants >= 2
    /\ \E t, u \in Tasks : tk[t].pc = "rate_sleep" /\ tk[u].pc = "rate"

\* C2: at no time do more than N = PER_ACCOUNT_CONCURRENCY attempts hold the
\* gate of one account.
C2_GateLimit ==
    impl = "pro" => \A a \in 1..naccounts : Cardinality(Holders(a)) <= conc

\* a gate is full, and a retry of another call waits at it
C2_Witness ==
    \E a \in 1..naccounts, t \in Tasks :
        /\ Cardinality(Holders(a)) = conc
        /\ tk[t].pc = "gate" /\ tk[t].acc = a /\ tk[t].i > 0

\* C3: an attempt that took a permit gives it back exactly once when it
\* leaves, by return or by exception: outside the body a task holds nothing,
\* the permits out and the permits left add up to N, so a gate never has more
\* than N permits and has N when nothing is in flight.
C3_ReleaseOnEveryExit ==
    impl = "pro" =>
        /\ \A t \in Tasks : tk[t].holds = (IF tk[t].pc \in BodyPcs THEN 1 ELSE 0)
        /\ \A a \in 1..naccounts :
              /\ sem[a] <= conc
              /\ sem[a] + Cardinality(Holders(a)) = conc
              /\ (\A t \in Tasks : tk[t].pc \notin BodyPcs) => sem[a] = conc

\* one attempt has left by an exception, another by a return, and nothing is
\* in flight
C3_Witness ==
    /\ \E t, u \in Tasks :
          /\ tk[t].pc = "backoff"
          /\ tk[u].pc = "done" /\ out[u].st = "returned"
    /\ \A a \in 1..naccounts : sem[a] = conc

\* C4: with max_retries = m >= 1 the wrapped operation is invoked at most m
\* times; a call that returns returns what its latest invocation returned;
\* a call that raises has made m invocations and raises the m-th's exception.
C4_RetryBound ==
    (impl = "pro" /\ max_retries >= 1) =>
        \A t \in Tasks :
            /\ tk[t].calls <= max_retries
            /\ out[t].st = "returned" => out[t].at = tk[t].calls
            /\ out[t].st = "raised" =>
                  /\ tk[t].calls = max_retries
                  /\ out[t].exc = ExcAt(max_retries, "transport")

\* a call has raised after two or more invocations
C4_Witness ==
    \E t \in Tasks :
        /\ max_retries >= 2
        /\ out[t].st = "raised"
        /\ tk[t].calls = max_retries

\* C5: no call of search, user_timeline or tweet_details of SafeScraper (with
\* max_retries >= 1) or of SafeTwitterScraper ends with an exception at the
\* caller.
C5_NeverRaises ==
    \A t \in Tasks :
        ((impl = "pro" /\ max_retries >= 1) \/ impl = "twikit") => out[t].st # "raised"

\* C6: a search or timeline request whose strategy raised, or got a status
\* other than 200, does not return an empty sequence.
C6_NoSilentEmpty ==
    \A t \in Tasks :
        (/\ tk[t].pc = "done"
         /\ tk[t].kind \in {"search", "timeline"}
         /\ out[t].st = "returned"
         /\ (tk[t].lastPrim = "raised" \/ tk[t].lastDoc \in {"raise", "non200"}))
            => Len(out[t].val) > 0

\* in the call of task t every structured-client lookup failed and every
\* document fetch gave a usable page
PrimaryFailsDocSucceeds(t) ==
    /\ DetailsDone(t)
    /\ tk[t].calls = 1
    /\ tk[t].lastPrim # "ok"
    /\ tk[t].lastDoc \in {"none", "200"}

C10_NoReentry ==
    \A t \in Tasks :
        /\ ~(tk[t].kind = "details" /\ tk[t].docTried
                /\ tk[t].pc \in {"primary", "s_primary", "s_recover"})
        /\ (DetailsDone(t) /\ tk[t].lastDoc \in {"raise", "non200"}) =>
              /\ out[t].st = "returned"
              /\ "error" \in DOMAIN out[t].val

\* C11: an attempt bound to an account without a structured client is never
\* at a call of that client (user_by_login, get_user_tweets, get_tweet_by_id)
\* and has made none: it is at the profile page or at the document fetch.
C11_SkipsPrimary ==
    impl = "pro" =>
        \A t \in Tasks :
            (tk[t].pc \in BodyPcs /\ ~client[tk[t].acc]) =>
                /\ tk[t].pc \in {"html", "tl_profile"}
                /\ tk[t].lastPrim = "none"

\* a timeline attempt without a client found the numeric id on the profile
\* page and still went to the document fetch
C11_Witness ==
    \E t \in Tasks :
        /\ tk[t].kind = "timeline"
        /\ tk[t].pc = "html"
        /\ ~client[tk[t].acc]
        /\ tk[t].nid

\* C12: the j-th account get_account hands out (j from 0) is account j mod K,
\* and the rotation index stays in 0..K-1, under every interleaving.
C12_RoundRobin ==
    (impl = "pro" /\ pool_made) =>
        /\ pool_idx \in 0..(naccounts - 1)
        /\ pool_idx = Len(handed) % naccounts
        /\ \A j \in 1..Len(handed) : handed[j] = ((j - 1) % naccounts) + 1

\* two callers hold different accounts and the rotation has wrapped around
C12_Witness ==
    /\ naccounts = 2
    /\ Len(handed) >= 3
    /\ \E t, u \in Tasks : tk[t].acc = 1 /\ tk[u].acc = 2

\* C13: AccountPool of no accounts is not constructed: without accounts there
\* is no pool, without a pool no call is made, and get_account only ever
\* indexes a list that has accounts.
C13_NoEmptyPool ==
    impl = "pro" =>
        /\ naccounts = 0 => ~pool_made
        /\ ~pool_made => (handed = <<>> /\ \A t \in Tasks : tk[t].pc = "idle")
        /\ handed # <<>> => naccounts > 0

\* the constructor was given no account and raised
C13_Witness == impl = "pro" /\ naccounts = 0 /\ ~pool_made

\* C14: every outbound request of SafeScraper leaves at least min_delay =
\* 1/qps after the one before it.
C14_RequestSpacing == impl = "pro" => req_gap >= min_delay

\* C15: an attempt in its body has stamped last_used of its account, and an
\* attempt that failed has left failures of its account at one or more.
C15_AccountBookkeeping ==
    impl = "pro" =>
        \A t \in Tasks :
            /\ tk[t].pc \in BodyPcs => last_used[tk[t].acc] # NeverUsed
            /\ tk[t].pc = "backoff" => failures[tk[t].acc] >= 1

\* C16: a request of SafeScraper whose last document fetch got a status other
\* than 200 has used all max_retries attempts.
C16_NonSuccessRetried ==
    \A t \in Tasks :
        (impl = "pro" /\ tk[t].pc = "done" /\ tk[t].lastDoc = "non200")
            => tk[t].calls = max_retries

\* C17: a timeline or item-detail request does not return what its primary
\* strategy gave when that has no content (a null item, an empty sequence).
C17_EmptyPrimaryEscalates ==
    \A t \in Tasks :
        (/\ impl \in {"pro", "twikit"}
         /\ tk[t].pc = "done"
         /\ tk[t].kind \in {"timeline", "details"}
         /\ tk[t].lastPrim = "ok" /\ tk[t].lastDoc = "none" /\ tk[t].lastRec = "none"
         /\ out[t].st = "returned")
            => IF tk[t].kind = "details" THEN out[t].val.id # None
               ELSE Len(out[t].val) > 0

\* C18: a search or timeline whose batch arrived returns, and returns a
\* record when the batch has a well-formed item and the limit allows one.
C18_MalformedItemDropped ==
    (/\ impl \in {"twikit", "twscrape"}
     /\ tk[1].pc = "done"
     /\ tk[1].kind \in {"search", "timeline"}
     /\ tk[1].lastPrim = "ok")
        => /\ out[1].st = "returned"
           /\ (tk[1].limit >= 1 /\ \E j \in 1..Len(tk[1].batch) : tk[1].batch[j] = "good")
                 => Len(out[1].val) >= 1

\* C19: in the record _normalize_tweet_from_twikit makes of a tweet, likes is
\* None exactly when the tweet has neither likeCount nor likes, a count of 0
\* stays 0, and retweets is the tweet's retweetCount.
C19_UnknownIffAbsent ==
    \A t \in Tasks :
        (/\ impl = "pro" /\ DetailsDone(t)
         /\ tk[t].lastPrim = "ok" /\ tk[t].lastDoc = "none"
         /\ out[t].st = "returned")
            => /\ (out[t].val.likes = None) <=>
                     (tk[t].item.likeCount = None /\ tk[t].item.likes = None)
               /\ tk[t].item.likeCount = "0" => out[t].val.likes = "0"
               /\ out[t].val.retweets = tk[t].item.retweetCount

\* C20: when the primary strategy of a timeline or item-detail request has
\* failed and the document fetch is about to be made for the first time, the
\* primary has been attempted max_retries times (it is attempted at most once
\* per invocation of the wrapped function, so calls bounds its attempts).
C20_PerStrategyRetry ==
    \A t \in Tasks :
        (/\ impl = "pro" /\ max_retries >= 1
         /\ tk[t].kind \in {"timeline", "details"}
         /\ tk[t].pc = "html" /\ tk[t].lastPrim = "raised" /\ ~tk[t].docTried)
            => tk[t].calls = max_retries

\* C21: the wrapper sleeps only between two attempts: a call that is in its
\* backoff sleep has an attempt still to come.
C21_SleepOnlyBetween ==
    \A t \in Tasks :
        (impl = "pro" /\ tk[t].pc = "backoff") => tk[t].calls < max_retries

\* the attempts of a call that are past rate.wait(): all of them, but the one
\* under way when that is still waiting for its grant
PastWait(t) ==
    tk[t].calls - (IF tk[t].pc \in {"rate", "rate_sleep"} THEN 1 ELSE 0)

\* C22: every attempt of a call, retries included, has got a grant of its own
\* from rate.wait() before it is bound to an account, takes a gate or sends a
\* request: the grants of a call are as many as its attempts past rate.wait().
C22_GrantPerAttempt ==
    impl = "pro" => \A t \in Tasks : tk[t].granted = PastWait(t)

\* a retry is in its body, with a grant of its own
C22_Witness ==
    \E t \in Tasks :
        /\ tk[t].pc \in BodyPcs
        /\ tk[t].calls = 2
        /\ tk[t].granted = 2

\* C23: what the wrapper raises to its caller is an exception that an
\* invocation of the wrapped function raised, for every max_retries >= 0.
C23_RaisesOwnException ==
    \A t \in Tasks :
        (impl = "pro" /\ out[t].st = "raised") =>
            /\ out[t].exc.at \in 1..tk[t].calls
            /\ out[t].exc.what = "transport"

\* C24: a search or timeline with limit L >= 0 returns at most L records.
C24_AtMostLimit ==
    \A t \in Tasks :
        (/\ tk[t].pc = "done"
         /\ tk[t].kind \in {"search", "timeline"}
         /\ out[t].st = "returned")
            => Len(out[t].val) <= tk[t].limit

\* C26, as claimed: an attempt that waits at a gate without a permit finds no
\* permit at any account of the pool.
C26_Original ==
    impl = "pro" =>
        \A t \in Tasks :
            (tk[t].pc = "gate" /\ sem[tk[t].acc] = 0) =>
                \A a \in 1..naccounts : sem[a] = 0

\* C26, amended: an attempt waits at the gate of the account the rotation
\* bound it to, and finds no permit there exactly when that account has N
\* attempts in its body, whatever the other accounts have free.
C26_BlockedOnOwnGate ==
    impl = "pro" =>
        \A t \in Tasks :
            tk[t].pc = "gate" =>
                ((sem[tk[t].acc] = 0) <=> (Cardinality(Holders(tk[t].acc)) = conc))

\* an attempt is blocked at a saturated gate while another account is free
C26_Witness ==
    \E t \in Tasks, a \in 1..naccounts :
        /\ tk[t].pc = "gate"
        /\ sem[tk[t].acc] = 0
        /\ a # tk[t].acc
        /\ sem[a] = conc

\* C25: with fair scheduling, sleeps that end and collaborators that answer,
\* every call that was made comes to its end, by return or by exception: no
\* task waits for ever for the limiter's lock or for a gate.
C25_Terminates ==
    \A t \in Tasks : (tk[t].pc # "idle") ~> (tk[t].pc = "done")

\* one caller sleeps in wait() holding the limiter's lock, after it had a gate
\* and gave it back on an exception, while the other waits for that lock
C25_Witness ==
    \E t, u \in Tasks :
        /\ tk[t].pc = "rate_sleep" /\ tk[t].calls = 2
        /\ tk[u].pc = "rate"
        /\ rate_lock = t
====
